---- MODULE Spec2Model ----
(***************************************************************************)
(* Model of boost/pool/detail/mutex.hpp: the preprocessor configuration    *)
(* that selects default_mutex, the three wrapper classes win32_mutex,      *)
(* pthread_mutex and null_mutex, and client threads that use them.         *)
(***************************************************************************)
EXTENDS Integers, FiniteSets, Sequences, TLC

VARIABLES
    cfg,            \* macros defined when the header is entered (after boost/config.hpp)
    unistd,         \* whether the platform's <unistd.h> defines _POSIX_THREADS
    defined,        \* the current macro table
    helper,         \* value of BOOST_MUTEX_HELPER, or Undefined
    ppc,            \* position of the preprocessor in the header
    classes,        \* the classes whose definition has been compiled in
    default_mutex,  \* the class default_mutex names, or "none"
    obj,            \* lifetime of each Lock object: "none", "live", "gone"
    mtx,            \* the native handle held in each Lock's mtx field
    everLocked,     \* whether lock() has ever been called on any Lock
    origin,         \* the Lock whose constructor initialised the handle a Lock holds, or 0
    pc,             \* position of each client thread
    target,         \* the Lock instance a thread's current call is on
    held,           \* held[t][l]: lock() calls of t on l returned and not yet unlocked
    counter,        \* the shared counter of the increment test
    tmp,            \* each thread's local copy of the counter
    iter,           \* completed increments of each thread
    sawOwner,       \* the owner a thread found when it called lock()
    released,       \* whether that owner has called unlock() since
    misuse          \* out-of-contract calls made so far

cfgVars == <<cfg, unistd, defined, helper, ppc, classes, default_mutex>>
objVars == <<obj, mtx, everLocked, origin>>
thrVars == <<pc, target, held, counter, tmp, iter, sawOwner, released, misuse>>
vars == <<cfgVars, objVars, thrVars>>

----------------------------------------------------------------------------
(* Bounds *)

\* Threads of the increment test and of the free client.
NumThreads == 2
\* Increments each thread makes in the increment test.
NumIters == 2
\* Lock instances of the free client.
NumLocks == 2
\* Out-of-contract calls the free client makes in one run.
MaxMisuse == 1
\* Threads of the in-contract client.
NumClients == 3

Threads == 1 .. NumThreads
Clients == 1 .. NumClients
Locks == 1 .. NumLocks
TheLock == 1
NoThread == 0
Corrupt == 0 - 1

----------------------------------------------------------------------------
(* Preprocessor configuration, lines 40-66 and the guards of lines 82-157 *)

BOOST_MUTEX_HELPER_NONE == 0
BOOST_MUTEX_HELPER_WIN32 == 1
BOOST_MUTEX_HELPER_PTHREAD == 2
Undefined == 0 - 1

Macros == {"BOOST_NO_MT", "BOOST_HAS_THREADS", "BOOST_WINDOWS",
           "BOOST_HAS_UNISTD_H", "_POSIX_THREADS", "BOOST_HAS_PTHREADS"}

\* #if !defined(BOOST_HAS_THREADS) && !defined(BOOST_NO_MT) / # define BOOST_NO_MT
AutoNoMT_NoAuto(d) == d

AutoNoMT(d) ==
    IF "BOOST_HAS_THREADS" \notin d /\ "BOOST_NO_MT" \notin d
    THEN d \cup {"BOOST_NO_MT"}
    ELSE d

\* #if defined(BOOST_HAS_UNISTD_H) / #include <unistd.h>
IncludeUnistd(d, u) ==
    IF "BOOST_HAS_UNISTD_H" \in d /\ u THEN d \cup {"_POSIX_THREADS"} ELSE d

PosixDetected(d) == "_POSIX_THREADS" \in d \/ "BOOST_HAS_PTHREADS" \in d

\* The #ifdef BOOST_NO_MT ... #endif chain that defines BOOST_MUTEX_HELPER.
\* Yields the macro table and the helper value after line 62.
SelectHelper_NoneFallback(d, u) ==
    IF "BOOST_NO_MT" \in d
    THEN [defined |-> d, helper |-> BOOST_MUTEX_HELPER_NONE]
    ELSE IF "BOOST_WINDOWS" \in d
    THEN [defined |-> d, helper |-> BOOST_MUTEX_HELPER_WIN32]
    ELSE LET d2 == IncludeUnistd(d, u)
         IN  [defined |-> d2,
              helper |-> IF PosixDetected(d2) THEN BOOST_MUTEX_HELPER_PTHREAD
                                              ELSE BOOST_MUTEX_HELPER_NONE]

SelectHelper_IgnoreNoMT(d, u) ==
    IF "BOOST_WINDOWS" \in d
    THEN [defined |-> d, helper |-> BOOST_MUTEX_HELPER_WIN32]
    ELSE LET d2 == IncludeUnistd(d, u)
         IN  [defined |-> d2,
              helper |-> IF PosixDetected(d2) THEN BOOST_MUTEX_HELPER_PTHREAD
                         ELSE IF "BOOST_NO_MT" \in d THEN BOOST_MUTEX_HELPER_NONE
                         ELSE Undefined]

SelectHelper(d, u) ==
    IF "BOOST_NO_MT" \in d
    THEN [defined |-> d, helper |-> BOOST_MUTEX_HELPER_NONE]
    ELSE IF "BOOST_WINDOWS" \in d
    THEN [defined |-> d, helper |-> BOOST_MUTEX_HELPER_WIN32]
    ELSE LET d2 == IncludeUnistd(d, u)
         IN  [defined |-> d2,
              helper |-> IF PosixDetected(d2) THEN BOOST_MUTEX_HELPER_PTHREAD
                                              ELSE Undefined]

ClassDefinitions_PosixOnly(d) ==
    {"null_mutex"}
    \cup (IF "BOOST_NO_MT" \notin d /\ "BOOST_WINDOWS" \in d
          THEN {"win32_mutex"} ELSE {})
    \cup (IF "BOOST_NO_MT" \notin d /\ "_POSIX_THREADS" \in d
          THEN {"pthread_mutex"} ELSE {})

\* The class definitions compiled in under the guards of lines 82-149.
ClassDefinitions(d) ==
    {"null_mutex"}
    \cup (IF "BOOST_NO_MT" \notin d /\ "BOOST_WINDOWS" \in d
          THEN {"win32_mutex"} ELSE {})
    \cup (IF "BOOST_NO_MT" \notin d /\ PosixDetected(d)
          THEN {"pthread_mutex"} ELSE {})

DefaultMutexTypedef_Swapped(h) ==
    IF h = BOOST_MUTEX_HELPER_NONE THEN "null_mutex"
    ELSE IF h = BOOST_MUTEX_HELPER_WIN32 THEN "pthread_mutex"
    ELSE IF h = BOOST_MUTEX_HELPER_PTHREAD THEN "win32_mutex"
    ELSE "none"

\* typedef ... default_mutex;
DefaultMutexTypedef(h) ==
    IF h = BOOST_MUTEX_HELPER_NONE THEN "null_mutex"
    ELSE IF h = BOOST_MUTEX_HELPER_WIN32 THEN "win32_mutex"
    ELSE IF h = BOOST_MUTEX_HELPER_PTHREAD THEN "pthread_mutex"
    ELSE "none"

\* The whole header on one configuration: the outcome of the compilation.
Compile(c, u) ==
    LET s == SelectHelper(AutoNoMT(c), u)
    IN  IF s.helper = Undefined
        THEN [error |-> TRUE, defined |-> s.defined, helper |-> Undefined,
              classes |-> {}, default_mutex |-> "none"]
        ELSE [error |-> FALSE, defined |-> s.defined, helper |-> s.helper,
              classes |-> ClassDefinitions(s.defined),
              default_mutex |-> DefaultMutexTypedef(s.helper)]

RealVariants == {"win32_mutex", "pthread_mutex"}
Variants == RealVariants \cup {"null_mutex"}

----------------------------------------------------------------------------
(* Native primitives.  A handle is [init, owner, rec, inits, destroys]:    *)
(* owner is the owning thread, NoThread, or Corrupt after misuse; rec is   *)
(* the recursion count; inits and destroys tally the native calls made on  *)
(* the storage.  A blocking or undefined call yields the set of handles it *)
(* can leave behind: the empty set means the call cannot return.           *)

Handle(i, o, r, ni, nd) ==
    [init |-> i, owner |-> o, rec |-> r, inits |-> ni, destroys |-> nd]

\* The contents of a mtx field before any constructor has run.
Uninitialized ==
    {Handle(FALSE, o, IF o = NoThread THEN 0 ELSE 1, 0, 0) : o \in {NoThread} \cup Threads}

Unowned(h) == [h EXCEPT !.owner = NoThread, !.rec = 0]

\* A release by a thread that is not the owner is undefined: the handle is
\* left as it was, released from its owner, or unusable.
MisusedRelease(h) ==
    {h, Unowned(h), [h EXCEPT !.owner = Corrupt, !.rec = 0]}

InitializeCriticalSection(h) ==
    [Unowned(h) EXCEPT !.init = TRUE, !.inits = h.inits + 1]

DeleteCriticalSection(h) ==
    [h EXCEPT !.init = FALSE, !.destroys = h.destroys + 1]

EnterCriticalSection_NoWait(h, t) ==
    IF h.owner = t THEN {[h EXCEPT !.rec = h.rec + 1]}
    ELSE {[h EXCEPT !.owner = t, !.rec = 1]}

EnterCriticalSection(h, t) ==
    IF h.owner = NoThread THEN {[h EXCEPT !.owner = t, !.rec = 1]}
    ELSE IF h.owner = t THEN {[h EXCEPT !.rec = h.rec + 1]}
    ELSE {}

LeaveCriticalSection_Keep(h, t) == {h}

LeaveCriticalSection(h, t) ==
    IF h.owner = t
    THEN IF h.rec > 1 THEN {[h EXCEPT !.rec = h.rec - 1]} ELSE {Unowned(h)}
    ELSE MisusedRelease(h)

pthread_mutex_init_NoReset(h) ==
    [h EXCEPT !.init = TRUE, !.inits = h.inits + 1]

pthread_mutex_init(h) ==
    [Unowned(h) EXCEPT !.init = TRUE, !.inits = h.inits + 1]

pthread_mutex_destroy(h) ==
    [h EXCEPT !.init = FALSE, !.destroys = h.destroys + 1]

pthread_mutex_lock_TryLock(h, t) ==
    IF h.owner = NoThread THEN {[h EXCEPT !.owner = t, !.rec = 1]} ELSE {h}

\* Relocking by the owner is undefined for a default mutex: the call fails
\* and returns, or never returns.
pthread_mutex_lock(h, t) ==
    IF h.owner = NoThread THEN {[h EXCEPT !.owner = t, !.rec = 1]}
    ELSE IF h.owner = t THEN {h}
    ELSE {}

pthread_mutex_unlock_Blocks(h, t) == IF h.owner = t THEN {} ELSE {h}

pthread_mutex_unlock(h, t) ==
    IF h.owner = t THEN {Unowned(h)} ELSE MisusedRelease(h)

----------------------------------------------------------------------------
(* The wrapper classes.  m is the memory holding every Lock's mtx field,   *)
(* self the instance the member function is called on, t the caller.       *)

win32_mutex_ctor(m, self) ==
    [m EXCEPT ![self] = InitializeCriticalSection(m[self])]

win32_mutex_dtor(m, self) ==
    [m EXCEPT ![self] = DeleteCriticalSection(m[self])]

win32_mutex_lock_NoEnter(m, self, t) == {m}

win32_mutex_lock(m, self, t) ==
    {[m EXCEPT ![self] = h] : h \in EnterCriticalSection(m[self], t)}

win32_mutex_unlock_Keep(m, self, t) == {m}

win32_mutex_unlock(m, self, t) ==
    {[m EXCEPT ![self] = h] : h \in LeaveCriticalSection(m[self], t)}

pthread_mutex_ctor_NoInit(m, self) == m

pthread_mutex_ctor(m, self) ==
    [m EXCEPT ![self] = pthread_mutex_init(m[self])]

pthread_mutex_dtor_NoDestroy(m, self) == m

pthread_mutex_dtor(m, self) ==
    [m EXCEPT ![self] = pthread_mutex_destroy(m[self])]

pthread_mutex_lock_NoWait(m, self, t) ==
    {[m EXCEPT ![self] = [m[self] EXCEPT !.owner = t, !.rec = 1]]}

pthread_mutex_class_lock(m, self, t) ==
    {[m EXCEPT ![self] = h] : h \in pthread_mutex_lock(m[self], t)}

pthread_mutex_unlock_Shared(m, self, t) ==
    {[m EXCEPT ![TheLock] = h] : h \in pthread_mutex_unlock(m[TheLock], t)}

pthread_mutex_class_unlock(m, self, t) ==
    {[m EXCEPT ![self] = h] : h \in pthread_mutex_unlock(m[self], t)}

null_mutex_ctor(m, self) == m

null_mutex_dtor(m, self) == m

null_mutex_lock_Owned(m, self, t) ==
    {[m EXCEPT ![self] = h] : h \in pthread_mutex_lock(m[self], t)}

null_mutex_lock_Enter(m, self, t) ==
    {[m EXCEPT ![self] = h] : h \in EnterCriticalSection(m[self], t)}

null_mutex_lock(m, self, t) == {m}

null_mutex_unlock(m, self, t) == {m}

\* Access of the copy constructor and of operator= of class v: each class
\* declares both under private: and defines neither.
CopyAccess_Public(v) == "public"

CopyAccess(v) ==
    CASE v = "win32_mutex" -> "private"
      [] v = "pthread_mutex" -> "private"
      [] v = "null_mutex" -> "private"

\* Member functions of the class a Lock of static type v has.
ctor(v, m, self) ==
    CASE v = "win32_mutex" -> win32_mutex_ctor(m, self)
      [] v = "pthread_mutex" -> pthread_mutex_ctor(m, self)
      [] v = "null_mutex" -> null_mutex_ctor(m, self)

dtor(v, m, self) ==
    CASE v = "win32_mutex" -> win32_mutex_dtor(m, self)
      [] v = "pthread_mutex" -> pthread_mutex_dtor(m, self)
      [] v = "null_mutex" -> null_mutex_dtor(m, self)

lock(v, m, self, t) ==
    CASE v = "win32_mutex" -> win32_mutex_lock(m, self, t)
      [] v = "pthread_mutex" -> pthread_mutex_class_lock(m, self, t)
      [] v = "null_mutex" -> null_mutex_lock(m, self, t)

unlock(v, m, self, t) ==
    CASE v = "win32_mutex" -> win32_mutex_unlock(m, self, t)
      [] v = "pthread_mutex" -> pthread_mutex_class_unlock(m, self, t)
      [] v = "null_mutex" -> null_mutex_unlock(m, self, t)

RECURSIVE SumOver(_, _)
SumOver(f, S) ==
    IF S = {} THEN 0
    ELSE LET x == CHOOSE y \in S : TRUE IN f[x] + SumOver(f, S \ {x})

\* Platform resource counter: native handles initialised and not destroyed.
LiveHandles(m) ==
    SumOver([l \in Locks |-> m[l].inits - m[l].destroys], Locks)

\* The instance whose storage the constructor call taking memory m to m2
\* ran a native initialisation on, for the Lock self; 0 if it ran none.
Initialised(m, m2, self) ==
    IF m2[self].inits > m[self].inits THEN self ELSE 0

\* Threads between a returned lock() and the matching unlock() on l.
Holders(l) == {t \in DOMAIN held : held[t][l] > 0}

\* Threads inside a lock() call on l that has not returned.
Waiters(l) == {t \in DOMAIN pc : pc[t] = "in_lock" /\ target[t] = l}

----------------------------------------------------------------------------
(* Preprocessing of the header, one conditional group per step *)

NoObjects ==
    /\ obj = [l \in Locks |-> "none"]
    /\ everLocked = FALSE
    /\ origin = [l \in Locks |-> 0]

ThreadsIdle ==
    /\ pc = [t \in Threads |-> "idle"]
    /\ target = [t \in Threads |-> 0]
    /\ held = [t \in Threads |-> [l \in Locks |-> 0]]
    /\ counter = 0
    /\ tmp = [t \in Threads |-> 0]
    /\ iter = [t \in Threads |-> 0]
    /\ sawOwner = [t \in Threads |-> {}]
    /\ released = [t \in Threads |-> {}]
    /\ misuse = 0

InitConfig ==
    /\ cfg \in SUBSET Macros
    /\ unistd \in BOOLEAN
    /\ defined = cfg
    /\ helper = Undefined
    /\ ppc = "L44"
    /\ classes = {}
    /\ default_mutex = "none"
    /\ NoObjects
    /\ mtx = [l \in Locks |-> Handle(FALSE, NoThread, 0, 0, 0)]
    /\ ThreadsIdle

PP_AutoNoMT ==
    /\ ppc = "L44"
    /\ defined' = AutoNoMT(defined)
    /\ ppc' = "L48"
    /\ UNCHANGED <<cfg, unistd, helper, classes, default_mutex, objVars, thrVars>>

PP_SelectHelper ==
    /\ ppc = "L48"
    /\ LET s == SelectHelper(defined, unistd)
       IN  /\ defined' = s.defined
           /\ helper' = s.helper
    /\ ppc' = "L64"
    /\ UNCHANGED <<cfg, unistd, classes, default_mutex, objVars, thrVars>>

PP_ErrorCheck ==
    /\ ppc = "L64"
    /\ ppc' = IF helper = Undefined THEN "error" ELSE "L82"
    /\ UNCHANGED <<cfg, unistd, defined, helper, classes, default_mutex, objVars, thrVars>>

PP_Classes ==
    /\ ppc = "L82"
    /\ classes' = ClassDefinitions(defined)
    /\ ppc' = "L151"
    /\ UNCHANGED <<cfg, unistd, defined, helper, default_mutex, objVars, thrVars>>

PP_Typedef ==
    /\ ppc = "L151"
    /\ default_mutex' = DefaultMutexTypedef(helper)
    /\ ppc' = "L164"
    /\ UNCHANGED <<cfg, unistd, defined, helper, classes, objVars, thrVars>>

PP_Undef ==
    /\ ppc = "L164"
    /\ helper' = Undefined
    /\ ppc' = "done"
    /\ UNCHANGED <<cfg, unistd, defined, classes, default_mutex, objVars, thrVars>>

NextConfig ==
    \/ PP_AutoNoMT
    \/ PP_SelectHelper
    \/ PP_ErrorCheck
    \/ PP_Classes
    \/ PP_Typedef
    \/ PP_Undef

SpecConfig == InitConfig /\ [][NextConfig]_vars

----------------------------------------------------------------------------
(* Programs built with the header *)

\* One build per variant of default_mutex.
RunConfigs ==
    {{"BOOST_NO_MT"},
     {"BOOST_HAS_THREADS", "BOOST_WINDOWS"},
     {"BOOST_HAS_THREADS", "_POSIX_THREADS"}}

Built ==
    /\ cfg \in RunConfigs
    /\ unistd = FALSE
    /\ LET b == Compile(cfg, unistd)
       IN  /\ defined = b.defined
           /\ classes = b.classes
           /\ default_mutex = b.default_mutex
    /\ helper = Undefined
    /\ ppc = "done"

----------------------------------------------------------------------------
(* The increment test: main constructs one Lock, NumThreads threads each   *)
(* run NumIters times lock(); read counter; write counter + 1; unlock(),   *)
(* and main destructs the Lock when all have finished.                     *)

Init ==
    /\ Built
    /\ default_mutex \in RealVariants
    /\ NoObjects
    /\ mtx \in [Locks -> Uninitialized]
    /\ \A l \in Locks \ {TheLock} : mtx[l].owner = NoThread
    /\ ThreadsIdle

MainConstruct ==
    /\ obj[TheLock] = "none"
    /\ mtx' = ctor(default_mutex, mtx, TheLock)
    /\ obj' = [obj EXCEPT ![TheLock] = "live"]
    /\ origin' = [origin EXCEPT ![TheLock] = Initialised(mtx, mtx', TheLock)]
    /\ UNCHANGED <<cfgVars, everLocked, thrVars>>

CallLock(t) ==
    /\ obj[TheLock] = "live"
    /\ pc[t] = "idle"
    /\ iter[t] < NumIters
    /\ pc' = [pc EXCEPT ![t] = "in_lock"]
    /\ target' = [target EXCEPT ![t] = TheLock]
    /\ everLocked' = TRUE
    /\ sawOwner' = [sawOwner EXCEPT ![t] = {mtx[TheLock].owner} \ {NoThread}]
    /\ released' = [released EXCEPT ![t] = {}]
    /\ UNCHANGED <<cfgVars, origin, obj, mtx, held, counter, tmp, iter, misuse>>

LockReturn(t) ==
    /\ pc[t] = "in_lock"
    /\ \E m \in lock(default_mutex, mtx, target[t], t) : mtx' = m
    /\ held' = [held EXCEPT ![t][target[t]] = @ + 1]
    /\ pc' = [pc EXCEPT ![t] = "read"]
    /\ UNCHANGED <<cfgVars, origin, obj, everLocked, target, counter, tmp, iter, sawOwner, released, misuse>>

Read(t) ==
    /\ pc[t] = "read"
    /\ tmp' = [tmp EXCEPT ![t] = counter]
    /\ pc' = [pc EXCEPT ![t] = "write"]
    /\ UNCHANGED <<cfgVars, objVars, target, held, counter, iter, sawOwner, released, misuse>>

Write(t) ==
    /\ pc[t] = "write"
    /\ counter' = tmp[t] + 1
    /\ tmp' = [tmp EXCEPT ![t] = 0]
    /\ pc' = [pc EXCEPT ![t] = "unlock"]
    /\ UNCHANGED <<cfgVars, objVars, target, held, iter, sawOwner, released, misuse>>

Unlock(t) ==
    /\ pc[t] = "unlock"
    /\ \E m \in unlock(default_mutex, mtx, target[t], t) : mtx' = m
    /\ held' = [held EXCEPT ![t][target[t]] = @ - 1]
    /\ iter' = [iter EXCEPT ![t] = @ + 1]
    /\ pc' = [pc EXCEPT ![t] = IF iter[t] + 1 = NumIters THEN "done" ELSE "idle"]
    /\ target' = [target EXCEPT ![t] = 0]
    /\ sawOwner' = [sawOwner EXCEPT ![t] = {}]
    /\ released' = [w \in Threads |->
                        IF w = t THEN {}
                        ELSE IF pc[w] = "in_lock" THEN released[w] \cup ({t} \cap sawOwner[w])
                        ELSE released[w]]
    /\ UNCHANGED <<cfgVars, origin, obj, everLocked, counter, tmp, misuse>>

AllDone == \A t \in Threads : pc[t] = "done"

MainDestruct ==
    /\ obj[TheLock] = "live"
    /\ AllDone
    /\ mtx' = dtor(default_mutex, mtx, TheLock)
    /\ obj' = [obj EXCEPT ![TheLock] = "gone"]
    /\ UNCHANGED <<cfgVars, everLocked, origin, thrVars>>

Next ==
    \/ MainConstruct
    \/ \E t \in Threads : CallLock(t)
    \/ \E t \in Threads : LockReturn(t)
    \/ \E t \in Threads : Read(t)
    \/ \E t \in Threads : Write(t)
    \/ \E t \in Threads : Unlock(t)
    \/ MainDestruct

Spec == Init /\ [][Next]_vars

\* The same test in a build whose default_mutex is null_mutex.
\* The increment test under a fair scheduler: a thread that holds the Lock
\* goes on to read, write and unlock, and the native primitive hands an
\* unowned Lock to one of the threads waiting for it, whichever it likes.
Fairness ==
    /\ \A t \in Threads : WF_vars(Read(t))
    /\ \A t \in Threads : WF_vars(Write(t))
    /\ \A t \in Threads : WF_vars(Unlock(t))
    /\ WF_vars(\E t \in Threads : LockReturn(t))

SpecFair == Init /\ [][Next]_vars /\ Fairness

InitNull ==
    /\ Built
    /\ default_mutex = "null_mutex"
    /\ NoObjects
    /\ mtx = [l \in Locks |-> Handle(FALSE, NoThread, 0, 0, 0)]
    /\ ThreadsIdle

SpecNull == InitNull /\ [][Next]_vars

----------------------------------------------------------------------------
(* The free client: Lock instances are constructed and destructed, and     *)
(* threads call lock() and unlock() on live instances in any order, in or  *)
(* out of contract: a lock() by a thread that holds the Lock and an        *)
(* unlock() by one that does not are the out-of-contract calls.  A Lock is *)
(* destructed only while no thread holds it or waits on it, and instances  *)
(* are constructed in the order of their declaration.                      *)

InitFree ==
    /\ Built
    /\ NoObjects
    /\ mtx \in [Locks -> Uninitialized]
    /\ default_mutex = "null_mutex" => \A l \in Locks : mtx[l].owner = NoThread
    /\ ThreadsIdle

F_Construct(l) ==
    /\ obj[l] = "none"
    /\ \A k \in Locks : k < l => obj[k] # "none"
    /\ mtx' = ctor(default_mutex, mtx, l)
    /\ obj' = [obj EXCEPT ![l] = "live"]
    /\ origin' = [origin EXCEPT ![l] = Initialised(mtx, mtx', l)]
    /\ UNCHANGED <<cfgVars, everLocked, thrVars>>

F_Destruct(l) ==
    /\ obj[l] = "live"
    /\ Holders(l) = {}
    /\ Waiters(l) = {}
    /\ mtx' = dtor(default_mutex, mtx, l)
    /\ obj' = [obj EXCEPT ![l] = "gone"]
    /\ UNCHANGED <<cfgVars, everLocked, origin, thrVars>>

F_CallLock(t, l) ==
    /\ obj[l] = "live"
    /\ pc[t] = "idle"
    /\ held[t][l] > 0 => misuse < MaxMisuse
    /\ misuse' = IF held[t][l] > 0 THEN misuse + 1 ELSE misuse
    /\ pc' = [pc EXCEPT ![t] = "in_lock"]
    /\ target' = [target EXCEPT ![t] = l]
    /\ everLocked' = TRUE
    /\ UNCHANGED <<cfgVars, origin, obj, mtx, held, counter, tmp, iter, sawOwner, released>>

F_LockReturn(t) ==
    /\ pc[t] = "in_lock"
    /\ pc' = [pc EXCEPT ![t] = "idle"]
    /\ target' = [target EXCEPT ![t] = 0]
    /\ held' = [held EXCEPT ![t][target[t]] = @ + 1]
    /\ \E m \in lock(default_mutex, mtx, target[t], t) : mtx' = m
    /\ UNCHANGED <<cfgVars, origin, obj, everLocked, counter, tmp, iter, sawOwner, released, misuse>>

F_Unlock(t, l) ==
    /\ obj[l] = "live"
    /\ pc[t] = "idle"
    /\ held[t][l] = 0 => misuse < MaxMisuse
    /\ misuse' = IF held[t][l] = 0 THEN misuse + 1 ELSE misuse
    /\ held' = [held EXCEPT ![t][l] = IF @ > 0 THEN @ - 1 ELSE 0]
    /\ \E m \in unlock(default_mutex, mtx, l, t) : mtx' = m
    /\ UNCHANGED <<cfgVars, origin, obj, everLocked, pc, target, counter, tmp, iter, sawOwner, released>>

NextFree ==
    \/ \E l \in Locks : F_Construct(l)
    \/ \E l \in Locks : F_Destruct(l)
    \/ \E t \in Threads, l \in Locks : F_CallLock(t, l)
    \/ \E t \in Threads : F_LockReturn(t)
    \/ \E t \in Threads, l \in Locks : F_Unlock(t, l)

SpecFree == InitFree /\ [][NextFree]_vars

----------------------------------------------------------------------------
(* The copying client: besides constructing, destructing, locking and     *)
(* unlocking Locks in contract, client code tries to copy-construct a Lock *)
(* from a live one and to assign one live Lock to another.  Code outside   *)
(* the class may use a member only if it is public; otherwise the client   *)
(* does not compile and nothing runs.                                      *)
(* A memberwise copy would duplicate the mtx field.                        *)

C_Construct(l) == ppc = "done" /\ F_Construct(l)

C_Destruct(l) == ppc = "done" /\ F_Destruct(l)

C_CallLock(t, l) == ppc = "done" /\ held[t][l] = 0 /\ F_CallLock(t, l)

C_LockReturn(t) == ppc = "done" /\ F_LockReturn(t)

C_Unlock(t, l) == ppc = "done" /\ held[t][l] > 0 /\ F_Unlock(t, l)

C_CopyConstruct(src, dst) ==
    /\ ppc = "done"
    /\ obj[src] = "live"
    /\ obj[dst] = "none"
    /\ \A k \in Locks : k < dst => obj[k] # "none"
    /\ IF CopyAccess(default_mutex) = "public"
       THEN /\ obj' = [obj EXCEPT ![dst] = "live"]
            /\ mtx' = [mtx EXCEPT ![dst] = mtx[src]]
            /\ origin' = [origin EXCEPT ![dst] = origin[src]]
            /\ ppc' = ppc
       ELSE /\ ppc' = "error"
            /\ UNCHANGED <<obj, mtx, origin>>
    /\ UNCHANGED <<cfg, unistd, defined, helper, classes, default_mutex, everLocked, thrVars>>

C_Assign(src, dst) ==
    /\ ppc = "done"
    /\ src # dst
    /\ obj[src] = "live"
    /\ obj[dst] = "live"
    /\ IF CopyAccess(default_mutex) = "public"
       THEN /\ mtx' = [mtx EXCEPT ![dst] = mtx[src]]
            /\ origin' = [origin EXCEPT ![dst] = origin[src]]
            /\ ppc' = ppc
       ELSE /\ ppc' = "error"
            /\ UNCHANGED <<mtx, origin>>
    /\ UNCHANGED <<cfg, unistd, defined, helper, classes, default_mutex, obj, everLocked, thrVars>>

NextCopy ==
    \/ \E l \in Locks : C_Construct(l)
    \/ \E l \in Locks : C_Destruct(l)
    \/ \E t \in Threads, l \in Locks : C_CallLock(t, l)
    \/ \E t \in Threads : C_LockReturn(t)
    \/ \E t \in Threads, l \in Locks : C_Unlock(t, l)
    \/ \E src, dst \in Locks : C_CopyConstruct(src, dst)
    \/ \E src, dst \in Locks : C_Assign(src, dst)

SpecCopy == InitFree /\ [][NextCopy]_vars

----------------------------------------------------------------------------
(* The in-contract client: NumClients threads lock and unlock the Locks in *)
(* any order, a thread calling lock() only on a Lock it does not hold and  *)
(* unlock() only on one it holds.                                          *)

ClientsIdle ==
    /\ pc = [t \in Clients |-> "idle"]
    /\ target = [t \in Clients |-> 0]
    /\ held = [t \in Clients |-> [l \in Locks |-> 0]]
    /\ counter = 0
    /\ tmp = [t \in Clients |-> 0]
    /\ iter = [t \in Clients |-> 0]
    /\ sawOwner = [t \in Clients |-> {}]
    /\ released = [t \in Clients |-> {}]
    /\ misuse = 0

InitContract ==
    /\ Built
    /\ NoObjects
    /\ mtx \in [Locks -> Uninitialized]
    /\ default_mutex = "null_mutex" => \A l \in Locks : mtx[l].owner = NoThread
    /\ ClientsIdle

NextContract ==
    \/ \E l \in Locks : C_Construct(l)
    \/ \E l \in Locks : C_Destruct(l)
    \/ \E t \in Clients, l \in Locks : C_CallLock(t, l)
    \/ \E t \in Clients : C_LockReturn(t)
    \/ \E t \in Clients, l \in Locks : C_Unlock(t, l)

SpecContract == InitContract /\ [][NextContract]_vars

----------------------------------------------------------------------------
(* Properties *)

Real == default_mutex \in RealVariants

Returned(t) == pc[t] \in {"read", "write", "unlock"}

\* C1: on a real variant at most one thread is between a returned lock() and
\* its matching unlock(), and the Lock is unowned or owned by exactly that
\* thread.
C1_MutualExclusion ==
    Real =>
        /\ Cardinality(Holders(TheLock)) <= 1
        /\ obj[TheLock] = "live" =>
               \/ Holders(TheLock) = {} /\ mtx[TheLock].owner = NoThread
               \/ Holders(TheLock) = {mtx[TheLock].owner}

C1_Witness ==
    /\ Real
    /\ \E o, w \in Threads :
           o # w /\ Holders(TheLock) = {o} /\ pc[o] = "write" /\ pc[w] = "in_lock"

\* C2: when every thread has finished its NumIters locked increments the
\* counter equals NumThreads * NumIters.
C2_NoLostUpdates ==
    Real /\ AllDone => counter = NumThreads * NumIters

C2_Witness ==
    Real /\ AllDone /\ counter = NumThreads * NumIters /\ obj[TheLock] = "gone"

\* C3: a lock() called while another thread owned the Lock has returned only
\* if that owner has called unlock() since the call.
C3_BlockingOrder ==
    Real => \A w \in Threads : Returned(w) => sawOwner[w] \subseteq released[w]

C3_Witness ==
    /\ Real
    /\ \E w \in Threads :
           pc[w] = "read" /\ sawOwner[w] # {} /\ released[w] = sawOwner[w]

\* C4: with null_mutex every lock() and unlock() call can be made and return
\* in every state, whatever calls came before, and no handle is ever left
\* unusable.
C4_NullInert ==
    default_mutex = "null_mutex" =>
        /\ \A t \in Threads, l \in Locks :
               /\ lock(default_mutex, mtx, l, t) # {}
               /\ unlock(default_mutex, mtx, l, t) # {}
        /\ \A t \in Threads : pc[t] = "in_lock" => ENABLED F_LockReturn(t)
        /\ \A l \in Locks : mtx[l].owner # Corrupt

C4_Witness ==
    /\ default_mutex = "null_mutex"
    /\ \E t, u \in Threads, l \in Locks :
           t # u /\ held[t][l] = 2 /\ held[u][l] = 1 /\ pc[u] = "idle"

Detected(d) == "BOOST_WINDOWS" \in d \/ PosixDetected(d)

PastErrorCheck == ppc \notin {"L44", "L48", "L64"}

Compiled == ppc \in {"L164", "done"}

\* C5 as stated: without a user-defined BOOST_NO_MT and with no native family
\* detected, compilation ends in #error and default_mutex is not null_mutex,
\* whatever BOOST_HAS_THREADS is.
C5_FailFast_AsStated ==
    "BOOST_NO_MT" \notin cfg /\ PastErrorCheck /\ ~Detected(defined) =>
        ppc = "error" /\ default_mutex # "null_mutex"

\* C5: with BOOST_HAS_THREADS defined, no user-defined BOOST_NO_MT and no
\* native family detected, compilation ends in #error and default_mutex is
\* not null_mutex.
C5_FailFast ==
    /\ "BOOST_NO_MT" \notin cfg
    /\ "BOOST_HAS_THREADS" \in cfg
    /\ PastErrorCheck
    /\ ~Detected(defined)
    => ppc = "error" /\ default_mutex # "null_mutex"

C5_Witness ==
    /\ "BOOST_NO_MT" \notin cfg
    /\ "BOOST_HAS_THREADS" \in cfg
    /\ ~Detected(defined)
    /\ ppc = "error"

\* C6: with BOOST_NO_MT defined by the user the header never reaches #error
\* and default_mutex, once defined, is null_mutex, whatever the other macros.
C6_DisableSwitch ==
    "BOOST_NO_MT" \in cfg =>
        /\ ppc # "error"
        /\ Compiled => default_mutex = "null_mutex"

C6_Witness ==
    /\ {"BOOST_NO_MT", "BOOST_HAS_THREADS", "BOOST_WINDOWS", "_POSIX_THREADS"} \subseteq cfg
    /\ ppc = "done"
    /\ default_mutex = "null_mutex"

\* C7 as stated: without a user-defined BOOST_NO_MT a header that compiles
\* names a real variant: win32_mutex with the Windows family detected or
\* pthread_mutex with the POSIX family detected.
C7_PlatformSelection_AsStated ==
    "BOOST_NO_MT" \notin cfg /\ Compiled =>
        \/ default_mutex = "win32_mutex" /\ "BOOST_WINDOWS" \in defined
        \/ default_mutex = "pthread_mutex" /\ PosixDetected(defined)

\* C7: with BOOST_HAS_THREADS defined and no user-defined BOOST_NO_MT a
\* header that compiles names win32_mutex when BOOST_WINDOWS is defined and
\* otherwise pthread_mutex, the POSIX family then being detected.
C7_PlatformSelection ==
    "BOOST_NO_MT" \notin cfg /\ "BOOST_HAS_THREADS" \in cfg /\ Compiled =>
        IF "BOOST_WINDOWS" \in defined
        THEN default_mutex = "win32_mutex"
        ELSE default_mutex = "pthread_mutex" /\ PosixDetected(defined)

C7_Witness ==
    /\ "BOOST_NO_MT" \notin cfg
    /\ "BOOST_HAS_THREADS" \in cfg
    /\ "BOOST_WINDOWS" \notin cfg
    /\ "_POSIX_THREADS" \notin cfg
    /\ ppc = "done"
    /\ default_mutex = "pthread_mutex"

\* C8: once the constructor of a real variant has returned and before any
\* lock() has returned, the Lock is unowned and a lock() by any thread can
\* return at once.
C8_FreshUnowned ==
    /\ Real
    /\ obj[TheLock] = "live"
    /\ \A t \in Threads : iter[t] = 0 /\ pc[t] \in {"idle", "in_lock"}
    => /\ mtx[TheLock].owner = NoThread
       /\ \A t \in Threads : lock(default_mutex, mtx, TheLock, t) # {}
       /\ \A t \in Threads : pc[t] = "in_lock" => ENABLED LockReturn(t)

C8_Witness ==
    /\ Real
    /\ obj[TheLock] = "live"
    /\ \A t \in Threads : iter[t] = 0 /\ pc[t] = "in_lock"

LiveObjects == {l \in Locks : obj[l] = "live"}

\* C9: while no Lock has been locked, a real-variant instance has had one
\* native initialisation once constructed and one native destruction once
\* destructed, and the live native handles are those of the live instances,
\* so none is left when all instances are destructed.
C9_ConstructDestructSymmetry ==
    Real /\ ~everLocked =>
        /\ \A l \in Locks :
               /\ obj[l] = "none" => mtx[l].inits = 0 /\ mtx[l].destroys = 0
               /\ obj[l] = "live" => mtx[l].inits = 1 /\ mtx[l].destroys = 0
               /\ obj[l] = "gone" => mtx[l].inits = 1 /\ mtx[l].destroys = 1
        /\ LiveHandles(mtx) = Cardinality(LiveObjects)

C9_Witness ==
    /\ Real
    /\ ~everLocked
    /\ \A l \in Locks : obj[l] = "gone"
    /\ LiveHandles(mtx) = 0

\* The step is a lock() call, a lock() return or an unlock() on a.  Each
\* action is preceded by what it does to the caller's own position.
CallOn(a) ==
    \E t \in Threads :
        \/ pc[t] = "idle" /\ pc'[t] = "in_lock" /\ target'[t] = a /\ F_CallLock(t, a)
        \/ pc[t] = "in_lock" /\ target[t] = a /\ pc'[t] = "idle" /\ F_LockReturn(t)
        \/ pc[t] = "idle" /\ pc'[t] = "idle"
           /\ (held'[t][a] < held[t][a] \/ misuse' > misuse)
           /\ F_Unlock(t, a)

\* The handle of b, the calls each thread holds on b (so Holders(b)) and
\* whether each thread waits on b (so Waiters(b)) are as before the step.
SameFor(b) ==
    /\ mtx'[b] = mtx[b]
    /\ \A t \in Threads :
           /\ held'[t][b] = held[t][b]
           /\ (pc'[t] = "in_lock" /\ target'[t] = b) <=> (pc[t] = "in_lock" /\ target[t] = b)

\* C10: a lock() or unlock() call on one Lock, in or out of contract, leaves
\* the handle, the holders and the waiters of every other Lock unchanged: a
\* step that changes any of them for a Lock is no call on another Lock.
C10_Isolation ==
    [][\A b \in Locks : SameFor(b) \/ \A a \in Locks \ {b} : ~CallOn(a)]_vars

C10_Witness ==
    /\ Real
    /\ misuse = 1
    /\ \E a, b \in Locks, o, w \in Threads :
           /\ a # b /\ o # w
           /\ mtx[a].owner = Corrupt
           /\ mtx[b].owner = o /\ Holders(b) = {o}
           /\ Waiters(b) = {w}

\* C11: the handle a live real-variant Lock holds is the one its own
\* constructor initialised, so no two live Locks hold the same handle; an
\* attempt to copy or assign a Lock of any variant is rejected.
C11_ExclusiveHandle ==
    /\ Real =>
           /\ \A l \in Locks : obj[l] = "live" => origin[l] = l
           /\ \A k, l \in Locks :
                  obj[k] = "live" /\ obj[l] = "live" /\ origin[k] = origin[l] => k = l
    /\ \A l \in Locks : obj[l] = "live" => mtx[l].inits = (IF Real THEN 1 ELSE 0)

C11_Witness ==
    /\ Real
    /\ ppc = "error"
    /\ \A l \in Locks : obj[l] = "live" /\ origin[l] = l

\* C12: for a real variant, whenever a thread's lock() call returns, the Lock
\* was unowned in the state before the acquiring step and the caller is its
\* owner, holding it once, in the state after.
C12_LockPostcondition ==
    [][Real =>
          \A t \in DOMAIN pc :
              pc[t] = "in_lock" /\ pc'[t] # "in_lock" =>
                  /\ mtx[target[t]].owner = NoThread
                  /\ mtx'[target[t]].owner = t
                  /\ mtx'[target[t]].rec = 1
                  /\ held'[t][target[t]] = 1]_vars

C12_Witness ==
    /\ Real
    /\ \E l \in Locks : \E t, u \in DOMAIN pc :
           /\ t # u
           /\ mtx[l].owner = t
           /\ held[t][l] = 1
           /\ pc[t] = "idle"
           /\ pc[u] = "in_lock"
           /\ target[u] = l

\* C13: for a real variant, an unlock() by the owner leaves the Lock unowned
\* and returns no waiter's lock() call by itself; the step in which one
\* waiter's lock() returns leaves every other waiter on that Lock waiting,
\* with its call unable to return, so one unlock() releases at most one.
C13_UnlockReleasesOne ==
    [][Real =>
          \A t \in DOMAIN pc : \A l \in Locks :
              /\ held'[t][l] < held[t][l] =>
                     /\ mtx[l].owner = t
                     /\ mtx'[l].owner = NoThread
                     /\ held'[t][l] = 0
                     /\ pc' = pc
              /\ held'[t][l] > held[t][l] =>
                     \A u \in Waiters(l) \ {t} :
                         /\ pc'[u] = "in_lock"
                         /\ target'[u] = l
                         /\ lock(default_mutex, mtx', l, u) = {}]_vars

C13_Witness ==
    /\ Real
    /\ \E l \in Locks : \E t, u, v \in DOMAIN pc :
           /\ t # u /\ t # v /\ u # v
           /\ mtx[l].owner = t
           /\ held[u][l] = 0 /\ held[v][l] = 0
           /\ held[t][l] = 1
           /\ Waiters(l) = {u, v}

\* The Lock is of a real variant and a thread other than t owns it.
OwnedByOther(t, l) == Real /\ mtx[l].owner \in DOMAIN pc \ {t}

\* C14: for every variant and in every state, a constructor, a destructor
\* and an unlock() call whose caller-side precondition holds can complete at
\* once, whatever the other threads are doing; a lock() call is unable to
\* return exactly when the variant is real and another thread owns the Lock.
C14_OnlyLockBlocks ==
    /\ \A l \in Locks :
           obj[l] = "none" /\ (\A k \in Locks : k < l => obj[k] # "none")
               => ENABLED C_Construct(l)
    /\ \A l \in Locks :
           obj[l] = "live" /\ Holders(l) = {} /\ Waiters(l) = {}
               => ENABLED C_Destruct(l)
    /\ \A t \in DOMAIN pc : \A l \in Locks :
           obj[l] = "live" /\ pc[t] = "idle" /\ held[t][l] > 0
               => ENABLED C_Unlock(t, l)
    /\ \A t \in DOMAIN pc :
           pc[t] = "in_lock"
               => (ENABLED C_LockReturn(t) <=> ~OwnedByOther(t, target[t]))

C14_Witness ==
    /\ Real
    /\ \E l \in Locks : \E t, u \in DOMAIN pc :
           /\ t # u
           /\ pc[u] = "in_lock" /\ target[u] = l
           /\ ~ENABLED C_LockReturn(u)
           /\ pc[t] = "idle" /\ held[t][l] = 1
           /\ ENABLED C_Unlock(t, l)
           /\ \E k \in Locks : obj[k] = "none" /\ ENABLED C_Construct(k)

\* C15: with null_mutex as the Lock of the increment test, lock() keeps no
\* thread out: a pending lock() call can return in every state, also while
\* other threads are between their lock() and their unlock(), and the Lock
\* never records an owner.  Two threads are then inside the critical
\* section together and an increment is lost (C15_Witness).
C15_NullNoExclusion ==
    default_mutex = "null_mutex" =>
        /\ mtx[TheLock].owner = NoThread
        /\ \A t \in Threads : pc[t] = "in_lock" => ENABLED LockReturn(t)
        /\ \A t \in Threads : Returned(t) <=> held[t][TheLock] = 1

C15_Witness ==
    /\ default_mutex = "null_mutex"
    /\ \E t, u \in Threads : t # u /\ Returned(t) /\ Returned(u)
    /\ counter < SumOver(iter, Threads)

\* C16: in every state an in-contract client of a real variant reaches, each
\* call the client may make next has the same outcomes under win32_mutex as
\* under pthread_mutex: the same set of resulting handles, hence the same
\* ability to return and the same owner afterwards.  Run side by side from
\* the same start, the two variants therefore stay in equal states and
\* allow the same sequences of returns.
C16_Interchangeable ==
    Real =>
        /\ \A l \in Locks :
               obj[l] = "none" =>
                   win32_mutex_ctor(mtx, l) = pthread_mutex_ctor(mtx, l)
        /\ \A l \in Locks :
               obj[l] = "live" /\ Holders(l) = {} /\ Waiters(l) = {} =>
                   win32_mutex_dtor(mtx, l) = pthread_mutex_dtor(mtx, l)
        /\ \A t \in DOMAIN pc :
               pc[t] = "in_lock" =>
                   win32_mutex_lock(mtx, target[t], t)
                       = pthread_mutex_class_lock(mtx, target[t], t)
        /\ \A t \in DOMAIN pc : \A l \in Locks :
               obj[l] = "live" /\ pc[t] = "idle" /\ held[t][l] > 0 =>
                   win32_mutex_unlock(mtx, l, t)
                       = pthread_mutex_class_unlock(mtx, l, t)

C16_Witness ==
    /\ Real
    /\ \E k, l \in Locks : \E t, u, v \in DOMAIN pc :
           /\ k # l /\ t # u /\ u # v /\ t # v
           /\ obj[k] = "live" /\ obj[l] = "live"
           /\ held[t][l] = 1 /\ pc[t] = "idle"
           /\ pc[u] = "in_lock" /\ target[u] = l
           /\ win32_mutex_lock(mtx, l, u) = {}
           /\ pc[v] = "in_lock" /\ target[v] = k
           /\ pthread_mutex_class_lock(mtx, k, v) # {}

\* lock() calls that have returned so far in the increment test.
Acquired == SumOver(iter, Threads) + Cardinality(Holders(TheLock))

\* C17: for a real variant used in contract under a fair scheduler, whenever
\* a thread is waiting in lock(), eventually one more lock() call returns;
\* and an unowned Lock with waiting threads always lets one of them proceed.
\* Which waiter proceeds is not fixed.
C17_Progress ==
    /\ [](Real /\ Waiters(TheLock) # {} /\ mtx[TheLock].owner = NoThread
              => ENABLED (\E t \in Threads : LockReturn(t)))
    /\ \A n \in 0 .. NumThreads * NumIters :
           (Real /\ Waiters(TheLock) # {} /\ Acquired = n) ~> (Acquired > n)

C17_Witness ==
    /\ Real
    /\ \E t, u \in Threads :
           /\ t # u
           /\ Returned(t)
           /\ sawOwner[t] # {}
           /\ pc[u] = "in_lock"
           /\ Acquired > 1

\* C18: for every combination of the macros that passes the #error check,
\* the helper value is one of the three constants, default_mutex is defined
\* as one of null_mutex, win32_mutex and pthread_mutex, and the class it
\* names is among the classes whose definitions were compiled in.
C18_SelectedClassDefined ==
    /\ ppc \in {"L82", "L151"} =>
           helper \in {BOOST_MUTEX_HELPER_NONE, BOOST_MUTEX_HELPER_WIN32,
                       BOOST_MUTEX_HELPER_PTHREAD}
    /\ Compiled =>
           /\ default_mutex \in Variants
           /\ default_mutex \in classes
    /\ ppc \in {"L44", "L48", "L64", "L82", "L151", "error"} =>
           default_mutex = "none"

C18_Witness ==
    /\ ppc = "done"
    /\ "BOOST_WINDOWS" \in cfg
    /\ "BOOST_HAS_PTHREADS" \in cfg
    /\ "_POSIX_THREADS" \notin defined
    /\ default_mutex = "win32_mutex"
    /\ classes = {"null_mutex", "win32_mutex", "pthread_mutex"}

====
